---- MODULE Spec2Model ----
\* A model of radiusauth/backends/radius.py (django-radius): the two
\* authentication backends RADIUSBackend and RADIUSRealmBackend, the pyrad
\* client call they make, and the Django User table they write to.
EXTENDS Integers, Sequences, FiniteSets, TLC

VARIABLES
    calls,            \* per thread: the method call it is executing
    store,            \* the rows of Django's auth User table
    nextPk,           \* the table's next auto-increment primary key
    serverBehaviour   \* what the RADIUS servers do with a request

vars == <<calls, store, nextPk, serverBehaviour>>

-----------------------------------------------------------------------------
\* Bounds and value sets

\* Longest username given to a direct _parse_username call.
MaxLen == 3

\* The threads that call into the backends concurrently.
Procs == {"t1", "t2"}

REALM_SEPARATOR == "@"

Chars == {"a", "b", REALM_SEPARATOR}

RECURSIVE StringsOfLen(_)
StringsOfLen(n) ==
    IF n = 0 THEN {<<>>}
    ELSE {Append(s, c) : s \in StringsOfLen(n - 1), c \in Chars}

\* Every username of at most MaxLen characters.
Strings == UNION {StringsOfLen(n) : n \in 0..MaxLen}

\* Usernames given to authenticate: without realm, with realm, and with an
\* empty part before the separator.
Usernames == {<<"a">>, <<"a", "@", "b">>, <<"@", "b">>}

\* Usernames given to direct _radius_auth and get_django_user calls.
StoreUsernames == {<<"a">>, <<"a", "@", "b">>}

Passwords == {"pw1", "pw2"}

\* Realms given to direct get_server calls.
Realms == {<<"b">>}

\* Python's None and a present value.
None == <<>>
Some(x) == <<x>>

\* What client.SendPacket can do: a reply with a code, or an exception.
AccessAccept == "AccessAccept"
AccessReject == "AccessReject"
AccessChallenge == "AccessChallenge"
Timeout == "Timeout"
SocketError == "SocketError"
Outcomes == {AccessAccept, AccessReject, AccessChallenge, Timeout, SocketError}

-----------------------------------------------------------------------------
\* Classes and attribute lookup

RADIUSBackend == "RADIUSBackend"
RADIUSRealmBackend == "RADIUSRealmBackend"
\* A subclass of RADIUSRealmBackend that overrides get_server.
RealmSubclass == "RealmSubclass"
Classes == {RADIUSBackend, RADIUSRealmBackend, RealmSubclass}

\* The attributes an instance of each class has (both classes derive from
\* object).
ClassAttrs(cls) ==
    IF cls = RADIUSBackend
    THEN {"supports_anonymous_user", "supports_object_permissions",
          "_get_dictionary", "_get_auth_packet", "_get_client",
          "_get_server_from_settings", "_perform_radius_auth",
          "_radius_auth", "get_django_user", "authenticate", "get_user"}
    ELSE {"_parse_username", "get_server", "authenticate"}

HasAttr(cls, name) == name \in ClassAttrs(cls)

-----------------------------------------------------------------------------
\* RealmResolver: _parse_username

\* The index of the last occurrence of c in s, 0 when there is none.
LastIndexOf(s, c) ==
    IF \E i \in DOMAIN s : s[i] = c
    THEN CHOOSE i \in DOMAIN s :
            s[i] = c /\ \A j \in DOMAIN s : j > i => s[j] # c
    ELSE 0

\* str.rpartition(sep): <<head, sep, tail>> around the last sep, or
\* <<"", "", s>> when s holds no sep.
RPartition(s, sep) ==
    LET i == LastIndexOf(s, sep)
    IN  IF i = 0 THEN <<<<>>, <<>>, s>>
        ELSE <<SubSeq(s, 1, i - 1), <<sep>>, SubSeq(s, i + 1, Len(s))>>

\* _parse_username with str.partition: splits on the first separator.
ParseUsernameFirstSeparator(username) ==
    LET first == IF \E i \in DOMAIN username : username[i] = REALM_SEPARATOR
                 THEN CHOOSE i \in DOMAIN username :
                        username[i] = REALM_SEPARATOR
                        /\ \A j \in DOMAIN username :
                              j < i => username[j] # REALM_SEPARATOR
                 ELSE 0
        user == IF first = 0 THEN <<>> ELSE SubSeq(username, 1, first - 1)
        realm == SubSeq(username, first + 1, Len(username))
    IN  IF user = <<>> THEN <<username, None>> ELSE <<user, Some(realm)>>

_parse_username(username) ==
    LET part == RPartition(username, REALM_SEPARATOR)
        user == part[1]
        realm == part[3]
    IN  IF user = <<>> THEN <<username, None>> ELSE <<user, Some(realm)>>

\* Python truth of an optional string: None and "" are false.
Truthy(opt) == opt # None /\ opt # Some(<<>>)

-----------------------------------------------------------------------------
\* Servers, pyrad client and packet

\* settings.RADIUS_SERVER, settings.RADIUS_PORT, settings.RADIUS_SECRET
SettingsServer == <<"radius.default", 1812, "secret1">>
\* The server a get_server override gives for a realm.
ServerX == <<"radius.corp", 1645, "secretX">>
Servers == {SettingsServer, ServerX}

_get_server_from_settings == SettingsServer

\* pyrad Client(server=server[0], authport=server[1], secret=server[2])
_get_client(server) ==
    [server |-> server[1], authport |-> server[2], secret |-> server[3]]

\* pkt.PwCrypt(password): the password obfuscated under the client's secret.
PwCrypt(password, secret) == <<"crypt", secret, password>>

\* client.CreateAuthPacket(code=AccessRequest, User_Name=username) with the
\* User-Password attribute set.
_get_auth_packet(username, password, client) ==
    [code |-> "AccessRequest",
     User_Name |-> username,
     User_Password |-> PwCrypt(password, client.secret)]

\* One client.SendPacket(packet) call: where the packet goes and the packet.
Datagram(client, packet) ==
    [host |-> client.server, port |-> client.authport, packet |-> packet]

\* _perform_radius_auth: True only for a reply with code AccessAccept; a
\* Timeout, any other exception, AccessReject and any other code give False.
_perform_radius_auth(outcome) ==
    IF outcome = Timeout THEN FALSE
    ELSE IF outcome = SocketError THEN FALSE
    ELSE IF outcome = AccessReject THEN FALSE
    ELSE IF outcome # AccessAccept THEN FALSE
    ELSE TRUE

\* get_server of the base class and of a subclass overriding it. The base
\* class calls self._get_server_from_settings(), which RADIUSRealmBackend
\* does not have.
get_server(cls, realm) ==
    IF cls = RealmSubclass
    THEN [ok |-> TRUE, server |-> ServerX]
    ELSE IF HasAttr(cls, "_get_server_from_settings")
    THEN [ok |-> TRUE, server |-> _get_server_from_settings]
    ELSE [ok |-> FALSE, server |-> SettingsServer]

-----------------------------------------------------------------------------
\* Django's User model

\* make_password(raw): the stored form of a password.
MakePassword(raw) == <<"hashed", raw>>
\* check_password(raw, encoded)
CheckPassword(raw, encoded) == encoded = MakePassword(raw)

\* User(username=username): not saved yet (pk is None, modelled as 0).
NewUser(username) == [pk |-> 0, username |-> username, password |-> <<>>]

SetPassword(user, raw) == [user EXCEPT !.password = MakePassword(raw)]

\* User.objects.get(username=username): the row, or DoesNotExist.
Exists(rows, username) == \E r \in rows : r.username = username
Get(rows, username) == CHOOSE r \in rows : r.username = username

\* user.save(): an INSERT for an unsaved user, refused when the username is
\* taken (the column is unique); an UPDATE of the row otherwise.
SaveFails(rows, user) == user.pk = 0 /\ Exists(rows, user.username)
Saved(user, pk) == IF user.pk = 0 THEN [user EXCEPT !.pk = pk] ELSE user
SaveRows(rows, user, pk) ==
    IF user.pk = 0 THEN rows \cup {[user EXCEPT !.pk = pk]}
    ELSE {r \in rows : r.pk # user.pk} \cup {user}

-----------------------------------------------------------------------------
\* Python values handed to the decorator

PyStr(s) == [type |-> "unicode", val |-> s]
Self(cls) == [type |-> "instance", val |-> <<cls>>]
HasEncode(arg) == arg.type \in {"unicode", "str"}
Encode(arg) == [type |-> "str", val |-> arg.val]

\* utf8_encode_args: arg.encode('utf-8') for every positional argument, the
\* instance included; an argument without encode raises AttributeError.
utf8_encode_args(args) ==
    IF \A i \in DOMAIN args : HasEncode(args[i])
    THEN [ok |-> TRUE, nargs |-> [i \in DOMAIN args |-> Encode(args[i])]]
    ELSE [ok |-> FALSE, nargs |-> args]

-----------------------------------------------------------------------------
\* The state of one method call

Pending == [kind |-> "pending", exc |-> "", type |-> "", val |-> <<>>]

IdleCall ==
    [op |-> "none", cls |-> "none", pc |-> "idle",
     username |-> <<>>,         \* the username argument
     password |-> None,         \* the password argument
     realm |-> None,            \* the realm argument or local
     sent |-> <<>>,             \* the SendPacket calls made so far
     gduArgs |-> None,          \* the arguments get_django_user was given
     user |-> NewUser(<<>>),    \* get_django_user's local user
     result |-> Pending]

\* The call ends by raising exc.
Raise(c, exc) ==
    [c EXCEPT !.pc = "done",
              !.result = [kind |-> "raise", exc |-> exc, type |-> "", val |-> <<>>]]

\* The call ends by returning val, a value of Python type type.
Return(c, type, val) ==
    [c EXCEPT !.pc = "done",
              !.result = [kind |-> "return", exc |-> "", type |-> type, val |-> val]]

-----------------------------------------------------------------------------
\* RADIUSBackend

\* _radius_auth up to the point where client.SendPacket waits for the server.
_radius_auth(c, server, username, password) ==
    LET client == _get_client(server)
        packet == _get_auth_packet(username, password, client)
    IN  [c EXCEPT !.pc = "wait", !.sent = Append(@, Datagram(client, packet))]

\* get_django_user's lookup: the stored user, or a new unsaved one.
get_django_user_lookup(rows, username) ==
    IF Exists(rows, username) THEN Get(rows, username) ELSE NewUser(username)

\* get_django_user that sets the password of a newly created user only.
SetPasswordOfNewUserOnly(user, password) ==
    IF user.pk = 0 THEN SetPassword(user, password[1]) ELSE user

\* get_django_user's user.set_password(password), for a given password.
get_django_user_set_password(user, password) ==
    SetPassword(user, password[1])

\* get_django_user up to the point before user.save(); without a password it
\* returns the user as found or as constructed.
get_django_user(c, username, password, rows) ==
    LET user == get_django_user_lookup(rows, username)
        called == [c EXCEPT !.gduArgs = Some(<<username, password>>),
                            !.user = user]
    IN  IF password # None
        THEN [called EXCEPT !.pc = "save"]
        ELSE Return(called, "User", user)

\* The body of RADIUSBackend.authenticate up to the first wait.
RADIUSBackend_authenticate(c, username, password) ==
    IF ~HasAttr(c.cls, "get_server_from_settings")
    THEN Raise(c, "AttributeError")
    ELSE _radius_auth(c, _get_server_from_settings, username, password[1])

-----------------------------------------------------------------------------
\* RADIUSRealmBackend

\* The body of RADIUSRealmBackend.authenticate up to the first wait.
RADIUSRealmBackend_authenticate(c, username, password) ==
    LET parsed == _parse_username(username)
        user == parsed[1]
        realm == parsed[2]
        srv == get_server(c.cls, realm)
    IN  IF ~Truthy(realm) THEN Return(c, "NoneType", None)
        ELSE IF ~srv.ok THEN Raise(c, "AttributeError")
        ELSE IF ~HasAttr(c.cls, "_radius_auth") THEN Raise(c, "AttributeError")
        ELSE _radius_auth([c EXCEPT !.realm = realm], srv.server, user,
                          password[1])

\* A decorated authenticate: the decorator, then the body of the class.
authenticate(c) ==
    LET enc == utf8_encode_args(<<Self(c.cls), PyStr(c.username),
                                  PyStr(c.password[1])>>)
        username == enc.nargs[2].val
        password == Some(enc.nargs[3].val)
        encoded == [c EXCEPT !.username = username, !.password = password]
    IN  IF ~enc.ok THEN Raise(c, "AttributeError")
        ELSE IF c.cls = RADIUSBackend
        THEN RADIUSBackend_authenticate(encoded, username, password)
        ELSE RADIUSRealmBackend_authenticate(encoded, username, password)

\* What follows self._radius_auth(...) in the caller: _radius_auth called
\* directly returns the result; authenticate gets the Django user when the
\* result is true and returns None otherwise.
AfterRadiusAuth(c, result, rows) ==
    IF c.op = "_radius_auth" THEN Return(c, "bool", result)
    ELSE IF ~result THEN Return(c, "NoneType", None)
    ELSE IF ~HasAttr(c.cls, "get_django_user") THEN Raise(c, "AttributeError")
    ELSE get_django_user(c, c.username, c.password, rows)

-----------------------------------------------------------------------------
\* Actions

Init ==
    /\ calls = [p \in Procs |-> IdleCall]
    /\ store = {}
    /\ nextPk = 1
    /\ serverBehaviour \in Outcomes

\* backend.authenticate(username, password) on an instance of cls.
CallAuthenticate(p, cls, u, pw) ==
    /\ calls[p].pc = "idle"
    /\ calls' = [calls EXCEPT ![p] =
                    authenticate([IdleCall EXCEPT !.op = "authenticate",
                                                  !.cls = cls,
                                                  !.username = u,
                                                  !.password = Some(pw)])]
    /\ UNCHANGED <<store, nextPk, serverBehaviour>>

\* RADIUSBackend()._radius_auth(server, username, password)
CallRadiusAuth(p, server, u, pw) ==
    /\ calls[p].pc = "idle"
    /\ calls' = [calls EXCEPT ![p] =
                    _radius_auth([IdleCall EXCEPT !.op = "_radius_auth",
                                                  !.cls = RADIUSBackend,
                                                  !.username = u,
                                                  !.password = Some(pw)],
                                 server, u, pw)]
    /\ UNCHANGED <<store, nextPk, serverBehaviour>>

\* client.SendPacket returns a reply or raises; _perform_radius_auth
\* classifies it and the caller goes on.
SendPacketReturns(p) ==
    /\ calls[p].pc = "wait"
    /\ calls' = [calls EXCEPT ![p] =
                    AfterRadiusAuth(@, _perform_radius_auth(serverBehaviour),
                                    store)]
    /\ UNCHANGED <<store, nextPk, serverBehaviour>>

\* RADIUSBackend().get_django_user(username, password)
CallGetDjangoUser(p, u, pw) ==
    /\ calls[p].pc = "idle"
    /\ calls' = [calls EXCEPT ![p] =
                    get_django_user([IdleCall EXCEPT !.op = "get_django_user",
                                                     !.cls = RADIUSBackend,
                                                     !.username = u,
                                                     !.password = pw],
                                    u, pw, store)]
    /\ UNCHANGED <<store, nextPk, serverBehaviour>>

\* get_django_user's user.set_password(password); user.save(); return user
Save(p) ==
    LET c == calls[p]
        user == get_django_user_set_password(c.user, c.password)
    IN  /\ c.pc = "save"
        /\ IF SaveFails(store, user)
           THEN /\ calls' = [calls EXCEPT ![p] = Raise(c, "IntegrityError")]
                /\ UNCHANGED <<store, nextPk>>
           ELSE /\ store' = SaveRows(store, user, nextPk)
                /\ nextPk' = IF user.pk = 0 THEN nextPk + 1 ELSE nextPk
                /\ calls' = [calls EXCEPT ![p] =
                                Return(c, "User", Saved(user, nextPk))]
        /\ UNCHANGED serverBehaviour

\* RADIUSRealmBackend()._parse_username(username)
CallParseUsername(p, u) ==
    /\ calls[p].pc = "idle"
    /\ calls' = [calls EXCEPT ![p] =
                    Return([IdleCall EXCEPT !.op = "_parse_username",
                                            !.cls = RADIUSRealmBackend,
                                            !.username = u],
                           "tuple", _parse_username(u))]
    /\ UNCHANGED <<store, nextPk, serverBehaviour>>

\* backend.get_server(realm) on a realm backend of class cls.
CallGetServer(p, cls, realm) ==
    LET c == [IdleCall EXCEPT !.op = "get_server", !.cls = cls,
                              !.realm = Some(realm)]
        srv == get_server(cls, Some(realm))
    IN  /\ calls[p].pc = "idle"
        /\ calls' = [calls EXCEPT ![p] =
                        IF srv.ok THEN Return(c, "server", srv.server)
                        ELSE Raise(c, "AttributeError")]
        /\ UNCHANGED <<store, nextPk, serverBehaviour>>

\* The caller takes the result; the thread is free for its next call.
Finish(p) ==
    /\ calls[p].pc = "done"
    /\ calls' = [calls EXCEPT ![p] = IdleCall]
    /\ UNCHANGED <<store, nextPk, serverBehaviour>>

Next ==
    \E p \in Procs :
        \/ \E cls \in Classes, u \in Usernames, pw \in Passwords :
                CallAuthenticate(p, cls, u, pw)
        \/ \E server \in Servers, u \in StoreUsernames, pw \in Passwords :
                CallRadiusAuth(p, server, u, pw)
        \/ SendPacketReturns(p)
        \/ \E u \in StoreUsernames, pw \in {None} \cup {Some(x) : x \in Passwords} :
                CallGetDjangoUser(p, u, pw)
        \/ Save(p)
        \/ \E u \in Usernames : CallParseUsername(p, u)
        \/ \E cls \in {RADIUSRealmBackend, RealmSubclass}, realm \in Realms :
                CallGetServer(p, cls, realm)
        \/ Finish(p)

Spec == Init /\ [][Next]_vars

\* Direct _parse_username calls over every username of at most MaxLen
\* characters.
NextParse ==
    \E p \in Procs :
        \/ \E u \in Strings : CallParseUsername(p, u)
        \/ Finish(p)

SpecParse == Init /\ [][NextParse]_vars

-----------------------------------------------------------------------------
\* Reading a call

Done(c) == c.pc = "done"
Raised(c) == c.result.kind = "raise"
ReturnedNone(c) == c.result.kind = "return" /\ c.result.type = "NoneType"
ReturnedUser(c) == c.result.kind = "return" /\ c.result.type = "User"

IsAuthenticate(c) == c.op = "authenticate"
DirectMode(c) == IsAuthenticate(c) /\ c.cls = RADIUSBackend
RealmMode(c) == IsAuthenticate(c) /\ c.cls \in {RADIUSRealmBackend, RealmSubclass}

\* The realm of a username as the claims describe it: the part after the last
\* separator, when the part before it is not empty.
SeparatorAt(u) == {i \in DOMAIN u : u[i] = REALM_SEPARATOR}
HasRealm(u) ==
    \E i \in SeparatorAt(u) :
        /\ \A j \in SeparatorAt(u) : j <= i
        /\ i > 1
        /\ i < Len(u)

\* The authenticate call has to ask a server: direct mode always, realm
\* mode when the username carries a realm.
AsksServer(c) == DirectMode(c) \/ (RealmMode(c) /\ HasRealm(c.username))

-----------------------------------------------------------------------------
\* Claims

\* C1: every authenticate call, in direct and in realm-routed mode, ends with
\* a result value whatever the server does; no exception escapes to the
\* caller.
C1_NoExceptionEscapes ==
    \A p \in Procs :
        (IsAuthenticate(calls[p]) /\ Done(calls[p])) => ~Raised(calls[p])

\* C2: in direct mode, with a server that answers AccessAccept, authenticate
\* yields Granted and get_django_user is invoked with exactly the given
\* username and password.
C2_AcceptGrantsDirect ==
    \A p \in Procs :
        (DirectMode(calls[p]) /\ Done(calls[p]) /\ serverBehaviour = AccessAccept)
        => /\ ReturnedUser(calls[p])
           /\ calls[p].gduArgs = Some(<<calls[p].username, calls[p].password>>)

\* C3: an authentication attempt whose server outcome is anything other than
\* AccessAccept ends Denied, and get_django_user is never invoked for it.
C3_NonAcceptDenied ==
    \A p \in Procs :
        (AsksServer(calls[p]) /\ Done(calls[p]) /\ serverBehaviour # AccessAccept)
        => /\ ReturnedNone(calls[p])
           /\ calls[p].gduArgs = None

\* C4: in realm-routed mode a username without a realm gets NotApplicable
\* (authenticate returns None), nothing is sent and get_django_user is not
\* invoked.
C4_NoRealmNotApplicable ==
    \A p \in Procs :
        (RealmMode(calls[p]) /\ Done(calls[p]) /\ ~HasRealm(calls[p].username))
        => /\ ReturnedNone(calls[p])
           /\ calls[p].sent = <<>>
           /\ calls[p].gduArgs = None

\* C5: in realm-routed mode with a get_server override that maps the realm to
\* serverX, the request for user@realm is sent to serverX's host and port and
\* to no other server.
C5_RoutedToRealmServer ==
    \A p \in Procs :
        (RealmMode(calls[p]) /\ calls[p].cls = RealmSubclass
            /\ HasRealm(calls[p].username) /\ Done(calls[p]))
        => /\ calls[p].sent # <<>>
           /\ \A i \in DOMAIN calls[p].sent :
                /\ calls[p].sent[i].host = ServerX[1]
                /\ calls[p].sent[i].port = ServerX[2]

\* C6: _parse_username splits on the last '@'. A username with exactly one
\* '@' and a non-empty part before it gives (prefix, suffix); a username with
\* no '@' gives (username, None); a username that starts with '@' and has
\* nothing before its last '@' gives (username, None), not ("", suffix); and
\* whenever a realm is given it is the part after the last '@'.
C6_ParseUsername ==
    \A p \in Procs :
        (calls[p].op = "_parse_username" /\ Done(calls[p]))
        => LET u == calls[p].username
               res == calls[p].result.val
               at == SeparatorAt(u)
           IN  /\ calls[p].result.kind = "return"
               /\ (Cardinality(at) = 1 /\ 1 \notin at)
                    => \E i \in at :
                          res = <<SubSeq(u, 1, i - 1),
                                  Some(SubSeq(u, i + 1, Len(u)))>>
               /\ (at = {}) => res = <<u, None>>
               /\ (at = {1}) => res = <<u, None>>
               /\ (res[2] # None)
                    => /\ u = res[1] \o <<REALM_SEPARATOR>> \o res[2][1]
                       /\ SeparatorAt(res[2][1]) = {}

\* C6 witness: one call parsed a username with an empty part before its only
\* '@', another a username with one '@' and a non-empty part before it.
C6_Witness ==
    \E p, q \in Procs :
        /\ calls[p].op = "_parse_username" /\ Done(calls[p])
        /\ SeparatorAt(calls[p].username) = {1}
        /\ Len(calls[p].username) > 1
        /\ calls[p].result.val = <<calls[p].username, None>>
        /\ calls[q].op = "_parse_username" /\ Done(calls[q])
        /\ SeparatorAt(calls[q].username) = {2}
        /\ calls[q].result.val[2] # None

\* C7: when the server never replies within the timeout, the authentication
\* attempt ends Denied after exactly one request has been sent.
C7_TimeoutDeniedAfterOneSend ==
    \A p \in Procs :
        (AsksServer(calls[p]) /\ Done(calls[p]) /\ serverBehaviour = Timeout)
        => /\ ReturnedNone(calls[p])
           /\ Len(calls[p].sent) = 1

C9_RequestNameAndRecordName ==
    \A p \in Procs :
        (RealmMode(calls[p]) /\ HasRealm(calls[p].username) /\ Done(calls[p])
            /\ serverBehaviour = AccessAccept)
        => /\ ReturnedUser(calls[p])
           /\ Len(calls[p].sent) = 1
           /\ calls[p].sent[1].packet.User_Name
                = _parse_username(calls[p].username)[1]
           /\ calls[p].result.val.username = calls[p].username
           /\ calls[p].sent[1].packet.User_Name # calls[p].result.val.username

\* C10: concurrent calls that get or create the same username never leave a
\* duplicate row and never fail.
C10_ConcurrentGetOrCreate ==
    /\ \A r1, r2 \in store : r1.username = r2.username => r1 = r2
    /\ \A p \in Procs :
          (calls[p].gduArgs # None /\ Done(calls[p])) => ~Raised(calls[p])

====
